---- MODULE Spec2Model ----
(***************************************************************************)
(* ManageSieve session engine of the mail server: Session::ingest,        *)
(* Session::validate_request, Session::write / write_error and            *)
(* Session::get_script_id (crates/managesieve/src/core/client.rs),        *)
(* Session::handle_setactive (crates/managesieve/src/op/setactive.rs) and *)
(* the error context they build (crates/trc/src/imple.rs).  The receiver, *)
(* the other operation handlers, the store and the session task that      *)
(* calls ingest are represented by their contracts.                       *)
(*                                                                         *)
(* Spec           a session fed with deliveries (ingest)                   *)
(* SpecValidate   validate_request on any command in any session           *)
(* SpecSetActive  handle_setactive over any store                          *)
(* SpecContext    ctx and wrap calls on an error                           *)
(* SpecTakeValue  take_value calls on an error built by ctx and wrap       *)
(***************************************************************************)
EXTENDS Integers, Sequences, FiniteSets, TLC

\* ------------------------------------------------------------------------
\* Bounds of the model
\* ------------------------------------------------------------------------
\* largest number of protocol items (command lines, malformed lines,
\* literal announcements) in one delivery
MaxItems == 2
\* TLS upgrades after which the model stops delivering bytes
MaxUpgrades == 2

\* capacity N of the annotation list of a Context<T, N>
N == 5

\* ------------------------------------------------------------------------
\* Option values: None is the empty sequence, Some(x) a one-element sequence
\* ------------------------------------------------------------------------
None == <<>>
Some(x) == <<x>>

\* ------------------------------------------------------------------------
\* Command (closed enumeration matched in ingest and validate_request)
\* ------------------------------------------------------------------------
Command ==
    {"ListScripts", "PutScript", "SetActive", "GetScript", "DeleteScript",
     "RenameScript", "CheckScript", "HaveSpace", "Capability", "Authenticate",
     "StartTls", "Logout", "Noop", "Unauthenticate"}

\* the arm of validate_request that requires State::Authenticated
ScriptCommands ==
    {"HaveSpace", "PutScript", "ListScripts", "SetActive", "GetScript",
     "DeleteScript", "RenameScript", "CheckScript", "Unauthenticate"}

\* the accounts an Authenticate can resolve to
AccountIds == {1, 2}

\* State: NotAuthenticated | Authenticated { access_token }
NotAuthenticated == [tag |-> "NotAuthenticated", account_id |-> 0]
Authenticated(id) == [tag |-> "Authenticated", account_id |-> id]

\* ------------------------------------------------------------------------
\* Error / Context model (crates/trc/src/imple.rs)
\* ------------------------------------------------------------------------
\* Value: the union an annotation holds; Value::default() is Value::None
Static(s) == [t |-> "Static", v |-> s]
String(s) == [t |-> "String", v |-> s]
\* an error converted into a Value
ErrorValue(e) == [t |-> "Error", v |-> e]
ValueNone == [t |-> "None", v |-> ""]
\* Key::default(): the model takes it among the keys that are appended, so a
\* lookup would find it in an unused slot if it looked there
KeyDefault == "CausedBy"

\* Context::new: every slot holds the default pair, no annotation is live
new(inner) ==
    [inner |-> inner, keys |-> [i \in 1..N |-> <<KeyDefault, ValueNone>>],
     keys_size |-> 0]

\* Context::ctx overwriting the last slot of a full context
ctx_overwriting(e, key, value) ==
    IF e.keys_size < N
    THEN [e EXCEPT !.keys[e.keys_size + 1] = <<key, value>>,
                   !.keys_size = e.keys_size + 1]
    ELSE [e EXCEPT !.keys[N] = <<key, value>>]

\* Context::ctx as it returns: store at keys[keys_size] while keys_size < N,
\* else leave the context as it is
ctx(e, key, value) ==
    IF e.keys_size < N
    THEN [e EXCEPT !.keys[e.keys_size + 1] = <<key, value>>,
                   !.keys_size = e.keys_size + 1]
    ELSE e

\* Context::ctx panics instead of returning: a full context, in a build with
\* debug_assertions
ctx_panics(debug, e) == debug /\ ~(e.keys_size < N)

into_err(cause) == new(cause)
code(e, c) == ctx(e, "Code", Static(c))
details(e, d) == ctx(e, "Details", Static(d))
\* Context::reason: the annotation is error.to_string()
reason(e, r) == ctx(e, "Reason", String(r))
\* AddContext::caused_by on an Err: the call site
caused_by(e, location) == ctx(e, "CausedBy", Static(location))
\* Context::caused_by
context_caused_by(e, error) == ctx(e, "CausedBy", error)

\* the lookup scanning every slot
value_every_slot(e, key) ==
    LET hits == {i \in 1..N : e.keys[i][1] = key} IN
    IF hits = {}
    THEN None
    ELSE Some(e.keys[CHOOSE i \in hits : \A j \in hits : i <= j][2])

\* Context::value: the value of the first live annotation with that key
value(e, key) ==
    LET hits == {i \in 1..e.keys_size : e.keys[i][1] = key} IN
    IF hits = {}
    THEN None
    ELSE Some(e.keys[CHOOSE i \in hits : \A j \in hits : i <= j][2])

\* the lookup removing the annotation it answers
take_value_removing(e, key) ==
    LET hits == {i \in 1..e.keys_size : e.keys[i][1] = key} IN
    IF hits = {}
    THEN [value |-> None, context |-> e]
    ELSE LET first == CHOOSE i \in hits : \A j \in hits : i <= j IN
         [value |-> Some(e.keys[first][2]),
          context |-> [e EXCEPT !.keys = [i \in 1..N |->
                                            IF i < first THEN e.keys[i]
                                            ELSE IF i < N THEN e.keys[i + 1]
                                            ELSE <<KeyDefault, ValueNone>>],
                                !.keys_size = e.keys_size - 1]]

\* Context::take_value: the value of the first live annotation with that
\* key, replaced in its slot by Value::default(); the answer and the context
take_value(e, key) ==
    LET hits == {i \in 1..e.keys_size : e.keys[i][1] = key} IN
    IF hits = {}
    THEN [value |-> None, context |-> e]
    ELSE LET first == CHOOSE i \in hits : \A j \in hits : i <= j IN
         [value |-> Some(e.keys[first][2]),
          context |-> [e EXCEPT !.keys[first][2] = ValueNone]]

\* Value::as_str
as_str(v) == IF v.t \in {"String", "Static"} THEN Some(v.v) ELSE None

\* Context::value_as_str
value_as_str(e, key) ==
    IF value(e, key) = None THEN None ELSE as_str(value(e, key)[1])

\* an outer error that keeps the annotations of the inner one
wrap_flat(e, cause) == [e EXCEPT !.inner = cause]

\* Error::wrap
wrap(e, cause) == context_caused_by(new(cause), ErrorValue(e))

\* Display: the root cause, then one line per live annotation
Display(e) == <<e.inner>> \o [i \in 1..e.keys_size |-> e.keys[i]]

\* the errors synthesised by validate_request
ErrEncryptNeeded ==
    details(code(into_err("ManageSieve"), "EncryptNeeded"),
            "Cannot authenticate over plain-text.")
ErrAlreadyAuthenticated == details(into_err("ManageSieve"), "Already authenticated.")
ErrAlreadyTls == details(into_err("ManageSieve"), "Already in TLS mode.")
ErrNotAuthenticated == details(into_err("ManageSieve"), "Not authenticated.")
ErrTooManyRequests == code(into_err("TooManyRequests"), "TryLater")
\* an error returned by the lookup store behind is_rate_allowed
ErrLookupStore == into_err("StoreError")
\* the call site trc::location!() of the limiter lookup
LocationRateLimit == "crates/managesieve/src/core/client.rs:162"
NoError == new("None")

\* ------------------------------------------------------------------------
\* Rate limiter: is_rate_allowed(key, rate, true) -> Result<Option<u64>>
\* ------------------------------------------------------------------------
LimiterOutcomes == {"allowed", "exceeded", "failed"}
\* format!("ireq:{}", access_token.primary_id())
RateKey(id) == <<"ireq:", id>>

\* ------------------------------------------------------------------------
\* Session::validate_request.  Each arm returns the verdict, the error of a
\* rejection and the limiter keys it looked up; lim is what the limiter
\* answers when it is consulted.
\* ------------------------------------------------------------------------
Pass == [ok |-> TRUE, err |-> NoError, limiter |-> <<>>]
Reject(err) == [ok |-> FALSE, err |-> err, limiter |-> <<>>]

\* the Authenticate arm without the State test
validate_authenticate_any_state(st, tls, plain) ==
    IF tls \/ plain
    THEN Pass
    ELSE Reject(ErrEncryptNeeded)

\* the Authenticate arm demanding a secured transport and the plain-auth policy
validate_authenticate_both(st, tls, plain) ==
    IF st.tag = "NotAuthenticated"
    THEN IF tls /\ plain
         THEN Pass
         ELSE Reject(ErrEncryptNeeded)
    ELSE Reject(ErrAlreadyAuthenticated)

\* arm Command::Authenticate
validate_authenticate(st, tls, plain) ==
    IF st.tag = "NotAuthenticated"
    THEN IF tls \/ plain
         THEN Pass
         ELSE Reject(ErrEncryptNeeded)
    ELSE Reject(ErrAlreadyAuthenticated)

\* the StartTls arm without the is_tls test
validate_starttls_unchecked(tls) == Pass

\* arm Command::StartTls
validate_starttls(tls) ==
    IF ~tls
    THEN Pass
    ELSE Reject(ErrAlreadyTls)

\* the rate branch letting a command through although the quota is exceeded
validate_rate_lenient(account_id, rate, lim) ==
    IF rate
    THEN CASE lim \in {"allowed", "exceeded"} ->
                [ok |-> TRUE, err |-> NoError, limiter |-> <<RateKey(account_id)>>]
           [] lim = "failed" ->
                [ok |-> FALSE, err |-> caused_by(ErrLookupStore, LocationRateLimit),
                 limiter |-> <<RateKey(account_id)>>]
    ELSE Pass

\* inner branch of the script-management arm: the session is Authenticated
validate_rate(account_id, rate, lim) ==
    IF rate
    THEN CASE lim = "allowed" ->
                [ok |-> TRUE, err |-> NoError, limiter |-> <<RateKey(account_id)>>]
           [] lim = "exceeded" ->
                [ok |-> FALSE, err |-> ErrTooManyRequests,
                 limiter |-> <<RateKey(account_id)>>]
           [] lim = "failed" ->
                [ok |-> FALSE, err |-> caused_by(ErrLookupStore, LocationRateLimit),
                 limiter |-> <<RateKey(account_id)>>]
    ELSE Pass

\* the script-management arm without the State test
validate_script_unchecked(st, rate, lim) == validate_rate(st.account_id, rate, lim)

\* arm of the script-management commands
validate_script(st, rate, lim) ==
    IF st.tag = "Authenticated"
    THEN validate_rate(st.account_id, rate, lim)
    ELSE Reject(ErrNotAuthenticated)

\* validation sending every command but Authenticate and StartTls through
\* the script-management arm
validate_request_strict(command, st, tls, plain, rate, lim) ==
    CASE command = "Authenticate" -> validate_authenticate(st, tls, plain)
      [] command = "StartTls" -> validate_starttls(tls)
      [] OTHER -> validate_script(st, rate, lim)

\* Session::validate_request
validate_request(command, st, tls, plain, rate, lim) ==
    CASE command \in {"Capability", "Logout", "Noop"} -> Pass
      [] command = "Authenticate" -> validate_authenticate(st, tls, plain)
      [] command = "StartTls" -> validate_starttls(tls)
      [] command \in ScriptCommands -> validate_script(st, rate, lim)

\* ------------------------------------------------------------------------
\* Input: what one delivery (one network read handed to ingest) contains.
\* A delivery is a sequence of protocol items as the receiver tokenises them:
\*   line     a complete command line
\*   bad      a malformed line (protocol-syntax error)
\*   literal  a command line up to and including a {N} literal announcement
\*   partial  the beginning of a command, truncated by the end of the read
\*   rest     the bytes that complete the command the receiver is holding
\* ------------------------------------------------------------------------
\* commands a client sends in the model: every arm of validate_request and
\* every handler with an effect of its own on the session
InputCommands ==
    {"Noop", "Logout", "StartTls", "Authenticate", "Unauthenticate", "SetActive",
     "PutScript"}
\* commands that arrive split over two reads or with a literal argument
SplitCommands == {"PutScript"}
\* literal sizes a client declares
LiteralSizes == {1, 2}

Request(command) == [command |-> command]

Item(t, command, size) == [t |-> t, command |-> command, size |-> size]

LineItems == {Item("line", c, 0) : c \in InputCommands}
BadItems == {Item("bad", "Noop", 0)}
LiteralItems == {Item("literal", c, n) : c \in SplitCommands, n \in LiteralSizes}
PartialItems == {Item("partial", c, 0) : c \in SplitCommands}
RestItems == {Item("rest", "Noop", 0)}
Items == LineItems \cup BadItems \cup LiteralItems \cup PartialItems \cup RestItems

\* a truncated command can only end a delivery; the completion of a held
\* command comes first, and only when the receiver holds one
Deliveries(pending) ==
    {d \in UNION {[1..n -> Items] : n \in 1..MaxItems} :
        /\ \A i \in 1..Len(d) : d[i].t = "partial" => i = Len(d)
        /\ \A i \in 1..Len(d) : d[i].t = "rest" => i = 1
        /\ (pending # None) <=> (d[1].t = "rest")}

\* ------------------------------------------------------------------------
\* Receiver::parse: one parse attempt on the byte cursor
\* ------------------------------------------------------------------------
parse(pending, cursor) ==
    IF cursor = <<>>
    THEN [outcome |-> "NeedsMoreData", request |-> Request("Noop"), size |-> 0,
          receiver |-> pending, bytes |-> cursor]
    ELSE LET item == Head(cursor) IN
         CASE item.t = "line" ->
                [outcome |-> "Ok", request |-> Request(item.command), size |-> 0,
                 receiver |-> None, bytes |-> Tail(cursor)]
           [] item.t = "rest" ->
                [outcome |-> "Ok", request |-> Head(pending), size |-> 0,
                 receiver |-> None, bytes |-> Tail(cursor)]
           [] item.t = "partial" ->
                [outcome |-> "NeedsMoreData", request |-> Request("Noop"), size |-> 0,
                 receiver |-> Some(Request(item.command)), bytes |-> Tail(cursor)]
           [] item.t = "literal" ->
                [outcome |-> "NeedsLiteral", request |-> Request("Noop"),
                 size |-> item.size,
                 receiver |-> Some(Request(item.command)), bytes |-> Tail(cursor)]
           [] item.t = "bad" ->
                [outcome |-> "Error", request |-> Request("Noop"), size |-> 0,
                 receiver |-> None, bytes |-> Tail(cursor)]

\* ------------------------------------------------------------------------
\* Transport: Session::write is write_all followed by flush
\* ------------------------------------------------------------------------
\* what the stream does with one write: both calls succeed, write_all fails,
\* or flush fails
TransportOutcomes == {"ok", "write_all", "flush"}

\* Session::write ignoring the result of flush
write_unflushed(io) == IF io = "write_all" THEN "Err" ELSE "Ok"

\* Session::write: Err as soon as write_all or flush fails
write(io) == IF io = "ok" THEN "Ok" ELSE "Err"

\* Session::write_error: serialize the error and write it
write_error(io) == write(io)

\* ------------------------------------------------------------------------
\* State of one session
\* ------------------------------------------------------------------------
VARIABLES
    state,             \* Session.state
    is_tls,            \* self.stream.is_tls()
    allow_plain_auth,  \* self.jmap.core.imap.allow_plain_auth
    rate_requests,     \* self.jmap.core.imap.rate_requests is Some(rate)
    receiver,          \* self.receiver: the command the parser is holding
    pc,                \* where the session task is
    bytes,             \* ingest: the cursor over the delivered bytes
    requests,          \* ingest: the batch of validated requests
    needs_literal,     \* ingest: Some(size) once the parser asked for a literal
    result,            \* the SessionResult ingest returned
    delivery,          \* history: the delivery handed to this ingest call
    parsed,            \* history: parse outcomes of this call, in order
    out,               \* history: transport writes of this call, in order
    handled,           \* history: handlers run by this call, in order
    calls,             \* history: rate-limiter lookups of this call, in order
    upgrades,          \* history: times ingest returned UpgradeTls
    documents,         \* the store: the sieve scripts of every account
    active,            \* the store: the active script of every account
    setactive,         \* history: the last handle_setactive call
    context,           \* an error under construction
    debug_assertions,  \* the build has debug_assertions
    panicked,          \* a ctx call on the error panicked
    appended,          \* history: the pairs given to ctx since Context::new
    wrapped,           \* history: the error Error::wrap was called on
    taken              \* history: the last take_value call on the error

vars == <<state, is_tls, allow_plain_auth, rate_requests, receiver, pc, bytes,
          requests, needs_literal, result, delivery, parsed, out, handled,
          calls, upgrades, documents, active, setactive, context,
          debug_assertions, panicked, appended, wrapped, taken>>

\* the session ingest works on
session_vars == <<state, is_tls, allow_plain_auth, rate_requests, receiver, pc,
                  bytes, requests, needs_literal, result, delivery, parsed, out,
                  handled, calls, upgrades>>
\* the store handle_setactive works on
store_vars == <<documents, active, setactive>>
\* the error the Context operations work on
context_vars == <<context, debug_assertions, panicked, appended, wrapped, taken>>

\* what the operations below work on; ingest leaves it alone
op_vars == <<store_vars, context_vars>>

config == <<allow_plain_auth, rate_requests>>

Init ==
    /\ state = NotAuthenticated
    /\ is_tls \in BOOLEAN
    /\ allow_plain_auth \in BOOLEAN
    /\ rate_requests \in BOOLEAN
    /\ receiver = None
    /\ pc = "read"
    /\ bytes = <<>>
    /\ requests = <<>>
    /\ needs_literal = None
    /\ result = "Continue"
    /\ delivery = <<>>
    /\ parsed = <<>>
    /\ out = <<>>
    /\ handled = <<>>
    /\ calls = <<>>
    /\ upgrades = 0
    /\ documents = {}
    /\ active = [a \in AccountIds |-> {}]
    /\ setactive = None
    /\ context = NoError
    /\ debug_assertions = FALSE
    /\ panicked = FALSE
    /\ appended = <<>>
    /\ wrapped = None
    /\ taken = None

\* one write on the transport: for which item of the delivery, what was
\* written, and what the stream did with it
Written(idx, kind, err, size, io) ==
    [idx |-> idx, kind |-> kind, err |-> err, size |-> size, io |-> io]

\* one parse outcome, with the session it was validated against
Parsed(outcome, command, valid) ==
    [outcome |-> outcome, command |-> command, valid |-> valid,
     state |-> state, tls |-> is_tls]

\* the session task hands the bytes of one network read to ingest
Deliver ==
    /\ pc = "read"
    /\ upgrades < MaxUpgrades
    /\ \E d \in Deliveries(receiver) :
          /\ bytes' = d
          /\ delivery' = d
    /\ requests' = <<>>
    /\ needs_literal' = None
    /\ pc' = "parse"
    /\ UNCHANGED <<state, is_tls, config, receiver, result, parsed, out, handled,
                   calls, upgrades>>
    /\ UNCHANGED op_vars

\* ------------------------------------------------------------------------
\* Operation handlers dispatched by the execution loop
\* ------------------------------------------------------------------------
\* an error returned by a handler
ErrHandler == details(into_err("ManageSieve"), "Command failed.")

\* The outcomes of a handler run in state st: whether it returned Ok and the
\* State it leaves.  Authenticate installs the access token of the resolved
\* account, Unauthenticate drops it, the other handlers leave the State alone.
HandlerOutcomes(command, st) ==
    CASE command = "Authenticate" ->
            {[ok |-> TRUE, state |-> Authenticated(a)] : a \in AccountIds}
                \cup {[ok |-> FALSE, state |-> st]}
      [] command = "Unauthenticate" ->
            {[ok |-> TRUE, state |-> NotAuthenticated]}
      [] OTHER ->
            {[ok |-> TRUE, state |-> st], [ok |-> FALSE, state |-> st]}

\* the parse loop running the handler of a request as soon as it is validated
ParseRequest_eager ==
    /\ pc = "parse"
    /\ LET p == parse(receiver, bytes) IN
       /\ p.outcome = "Ok"
       /\ receiver' = p.receiver
       /\ bytes' = p.bytes
       /\ \E lim \in LimiterOutcomes :
            LET v == validate_request(p.request.command, state, is_tls,
                                      allow_plain_auth, rate_requests, lim)
                idx == Len(parsed) + 1
            IN /\ parsed' = Append(parsed, Parsed("Ok", p.request.command, v.ok))
               /\ calls' = calls \o [i \in 1..Len(v.limiter) |->
                                        [idx |-> idx, key |-> v.limiter[i],
                                         outcome |-> lim]]
               /\ IF v.ok
                  THEN /\ \E h \in HandlerOutcomes(p.request.command, state) :
                            /\ state' = h.state
                            /\ out' = Append(out,
                                        IF h.ok
                                        THEN Written(idx, "response", NoError, 0, "ok")
                                        ELSE Written(idx, "error", ErrHandler, 0, "ok"))
                       /\ handled' = Append(handled, [idx |-> idx,
                                                      command |-> p.request.command,
                                                      state |-> state])
                  ELSE /\ out' = Append(out, Written(idx, "error", v.err, 0, "ok"))
                       /\ UNCHANGED <<state, handled>>
    /\ UNCHANGED <<is_tls, config, requests, pc, result, needs_literal, delivery,
                   upgrades>>
    /\ UNCHANGED op_vars

\* parse loop, arm Ok(request): validate, then batch or write the rejection
ParseRequest ==
    /\ pc = "parse"
    /\ LET p == parse(receiver, bytes) IN
       /\ p.outcome = "Ok"
       /\ receiver' = p.receiver
       /\ bytes' = p.bytes
       /\ \E lim \in LimiterOutcomes :
            LET v == validate_request(p.request.command, state, is_tls,
                                      allow_plain_auth, rate_requests, lim)
                idx == Len(parsed) + 1
            IN /\ parsed' = Append(parsed, Parsed("Ok", p.request.command, v.ok))
               /\ calls' = calls \o [i \in 1..Len(v.limiter) |->
                                        [idx |-> idx, key |-> v.limiter[i],
                                         outcome |-> lim]]
               /\ IF v.ok
                  THEN /\ requests' = Append(requests,
                                             [command |-> p.request.command, idx |-> idx])
                       /\ UNCHANGED <<out, pc, result>>
                  ELSE /\ \E io \in TransportOutcomes :
                            /\ out' = Append(out, Written(idx, "error", v.err, 0, io))
                            /\ IF write_error(io) = "Err"
                               THEN pc' = "returned" /\ result' = "Close"
                               ELSE UNCHANGED <<pc, result>>
                       /\ UNCHANGED requests
    /\ UNCHANGED <<state, is_tls, config, needs_literal, delivery, handled, upgrades>>
    /\ UNCHANGED op_vars

\* parse loop, arm Err(NeedsMoreData): break
ParseNeedsMoreData ==
    /\ pc = "parse"
    /\ LET p == parse(receiver, bytes) IN
       /\ p.outcome = "NeedsMoreData"
       /\ receiver' = p.receiver
       /\ bytes' = p.bytes
    /\ pc' = "execute"
    /\ UNCHANGED <<state, is_tls, config, requests, needs_literal, result, delivery,
                   parsed, out, handled, calls, upgrades>>
    /\ UNCHANGED op_vars

\* the NeedsLiteral arm breaking without remembering the size
ParseNeedsLiteral_forgetful ==
    /\ pc = "parse"
    /\ LET p == parse(receiver, bytes) IN
       /\ p.outcome = "NeedsLiteral"
       /\ receiver' = p.receiver
       /\ bytes' = p.bytes
       /\ needs_literal' = None
       /\ parsed' = Append(parsed, Parsed("NeedsLiteral", "Noop", FALSE))
    /\ pc' = "execute"
    /\ UNCHANGED <<state, is_tls, config, requests, result, delivery, out, handled,
                   calls, upgrades>>
    /\ UNCHANGED op_vars

\* parse loop, arm Err(NeedsLiteral { size }): remember the size, break
ParseNeedsLiteral ==
    /\ pc = "parse"
    /\ LET p == parse(receiver, bytes) IN
       /\ p.outcome = "NeedsLiteral"
       /\ receiver' = p.receiver
       /\ bytes' = p.bytes
       /\ needs_literal' = Some(p.size)
       /\ parsed' = Append(parsed, Parsed("NeedsLiteral", "Noop", FALSE))
    /\ pc' = "execute"
    /\ UNCHANGED <<state, is_tls, config, requests, result, delivery, out, handled,
                   calls, upgrades>>
    /\ UNCHANGED op_vars

\* parse loop, arm Err(Error { response }): write NO, then break
ParseError ==
    /\ pc = "parse"
    /\ LET p == parse(receiver, bytes) IN
       /\ p.outcome = "Error"
       /\ receiver' = p.receiver
       /\ bytes' = p.bytes
       /\ parsed' = Append(parsed, Parsed("Error", "Noop", FALSE))
       /\ \E io \in TransportOutcomes :
            /\ out' = Append(out, Written(Len(parsed) + 1, "no", NoError, 0, io))
            /\ IF write(io) = "Err"
               THEN pc' = "returned" /\ result' = "Close"
               ELSE pc' = "execute" /\ UNCHANGED result
    /\ UNCHANGED <<state, is_tls, config, requests, needs_literal, delivery, handled,
                   calls, upgrades>>
    /\ UNCHANGED op_vars

\* the return after a response, with StartTls going on with the batch
after_response_logout_only(command) ==
    CASE command = "Logout" -> "Close"
      [] OTHER -> "next"

\* a handler error closing the connection
after_error_close(command) == "Close"

\* ingest, after the Ok response of a handler was written: Logout and
\* StartTls return, any other command goes on with the batch
after_response(command) ==
    CASE command = "Logout" -> "Close"
      [] command = "StartTls" -> "UpgradeTls"
      [] OTHER -> "next"

\* ingest, after the error of a handler was written: go on with the batch
after_error(command) == "next"

\* the execution loop taking the newest request of the batch first
Execute_newest_first ==
    /\ pc = "execute"
    /\ requests # <<>>
    /\ LET request == requests[Len(requests)]
           command == request.command
       IN
       /\ requests' = SubSeq(requests, 1, Len(requests) - 1)
       /\ handled' = Append(handled, [idx |-> request.idx, command |-> command,
                                      state |-> state])
       /\ \E h \in HandlerOutcomes(command, state), io \in TransportOutcomes :
            LET flow == CASE h.ok /\ write(io) = "Err" -> "Close"
                          [] h.ok /\ write(io) = "Ok" -> after_response(command)
                          [] ~h.ok /\ write_error(io) = "Err" -> "Close"
                          [] ~h.ok /\ write_error(io) = "Ok" -> after_error(command)
            IN
            /\ state' = h.state
            /\ out' = Append(out,
                        IF h.ok
                        THEN Written(request.idx, "response", NoError, 0, io)
                        ELSE Written(request.idx, "error", ErrHandler, 0, io))
            /\ IF flow = "next"
               THEN UNCHANGED <<pc, result>>
               ELSE pc' = "returned" /\ result' = flow
            /\ upgrades' = IF flow = "UpgradeTls" THEN upgrades + 1 ELSE upgrades
    /\ UNCHANGED <<is_tls, config, receiver, bytes, needs_literal, delivery, parsed,
                   calls>>
    /\ UNCHANGED op_vars

\* execution loop: one iteration of `for request in requests`
Execute ==
    /\ pc = "execute"
    /\ requests # <<>>
    /\ LET request == Head(requests)
           command == request.command
       IN
       /\ requests' = Tail(requests)
       /\ handled' = Append(handled, [idx |-> request.idx, command |-> command,
                                      state |-> state])
       /\ \E h \in HandlerOutcomes(command, state), io \in TransportOutcomes :
            LET flow == CASE h.ok /\ write(io) = "Err" -> "Close"
                          [] h.ok /\ write(io) = "Ok" -> after_response(command)
                          [] ~h.ok /\ write_error(io) = "Err" -> "Close"
                          [] ~h.ok /\ write_error(io) = "Ok" -> after_error(command)
            IN
            /\ state' = h.state
            /\ out' = Append(out,
                        IF h.ok
                        THEN Written(request.idx, "response", NoError, 0, io)
                        ELSE Written(request.idx, "error", ErrHandler, 0, io))
            /\ IF flow = "next"
               THEN UNCHANGED <<pc, result>>
               ELSE pc' = "returned" /\ result' = flow
            /\ upgrades' = IF flow = "UpgradeTls" THEN upgrades + 1 ELSE upgrades
    /\ UNCHANGED <<is_tls, config, receiver, bytes, needs_literal, delivery, parsed,
                   calls>>
    /\ UNCHANGED op_vars

\* after the execution loop: acknowledge the literal the parser asked for
ReadyForLiteral ==
    /\ pc = "execute"
    /\ requests = <<>>
    /\ needs_literal # None
    /\ \E io \in TransportOutcomes :
         /\ out' = Append(out, Written(0, "ready", NoError, Head(needs_literal), io))
         /\ result' = IF write(io) = "Err" THEN "Close" ELSE "Continue"
    /\ pc' = "returned"
    /\ UNCHANGED <<state, is_tls, config, receiver, bytes, requests, needs_literal,
                   delivery, parsed, handled, calls, upgrades>>
    /\ UNCHANGED op_vars

\* after the execution loop, no literal pending: SessionResult::Continue
ReturnContinue ==
    /\ pc = "execute"
    /\ requests = <<>>
    /\ needs_literal = None
    /\ result' = "Continue"
    /\ pc' = "returned"
    /\ UNCHANGED <<state, is_tls, config, receiver, bytes, requests, needs_literal,
                   delivery, parsed, out, handled, calls, upgrades>>
    /\ UNCHANGED op_vars

\* the session task on SessionResult::Continue: wait for the next read
AwaitBytes ==
    /\ pc = "returned"
    /\ result = "Continue"
    /\ pc' = "read"
    /\ bytes' = <<>>
    /\ needs_literal' = None
    /\ delivery' = <<>>
    /\ parsed' = <<>>
    /\ out' = <<>>
    /\ handled' = <<>>
    /\ calls' = <<>>
    /\ UNCHANGED <<state, is_tls, config, receiver, requests, result, upgrades>>
    /\ UNCHANGED op_vars

\* the session task on SessionResult::UpgradeTls: TLS handshake, then the
\* same session resumes on the secured stream
TlsHandshake ==
    /\ pc = "returned"
    /\ result = "UpgradeTls"
    /\ is_tls' = TRUE
    /\ pc' = "read"
    /\ result' = "Continue"
    /\ bytes' = <<>>
    /\ requests' = <<>>
    /\ needs_literal' = None
    /\ delivery' = <<>>
    /\ parsed' = <<>>
    /\ out' = <<>>
    /\ handled' = <<>>
    /\ calls' = <<>>
    /\ UNCHANGED <<state, config, receiver, upgrades>>
    /\ UNCHANGED op_vars

Next ==
    \/ Deliver
    \/ ParseRequest
    \/ ParseNeedsMoreData
    \/ ParseNeedsLiteral
    \/ ParseError
    \/ Execute
    \/ ReadyForLiteral
    \/ ReturnContinue
    \/ AwaitBytes
    \/ TlsHandshake

Spec == Init /\ [][Next]_vars

TypeOK ==
    /\ state \in {NotAuthenticated} \cup {Authenticated(a) : a \in AccountIds}
    /\ is_tls \in BOOLEAN
    /\ pc \in {"read", "parse", "execute", "returned"}
    /\ result \in {"Continue", "Close", "UpgradeTls"}
    /\ Len(requests) <= MaxItems

\* ------------------------------------------------------------------------
\* Vocabulary of the properties, over the history of the current ingest call
\* ------------------------------------------------------------------------
\* the writes made for item i of the delivery
OutFor(i) == {j \in 1..Len(out) : out[j].idx = i}
\* the items whose handler was run
HandledIdx == {handled[k].idx : k \in 1..Len(handled)}
\* the items waiting in the batch
BatchedIdx == {requests[k].idx : k \in 1..Len(requests)}
\* the limiter lookups made for item i
CallsFor(i) == {k \in 1..Len(calls) : calls[k].idx = i}
\* item i was parsed into a request of one of the given commands
ParsedCommand(i, commands) ==
    parsed[i].outcome = "Ok" /\ parsed[i].command \in commands
\* item i was rejected by validation: exactly one write, the given error,
\* never batched, handler never run
RejectedWith(i, err) ==
    /\ ~parsed[i].valid
    /\ i \notin BatchedIdx \cup HandledIdx
    /\ Cardinality(OutFor(i)) = 1
    /\ \A j \in OutFor(i) : out[j].kind = "error" /\ out[j].err = err
\* item i passed validation: batched or already run
Accepted(i) == parsed[i].valid /\ i \in BatchedIdx \cup HandledIdx
\* a response of a handler that returned Ok, for one of the given commands
ResponseOf(j, commands) ==
    out[j].kind = "response" /\ parsed[out[j].idx].command \in commands
AllWritesOk == \A j \in 1..Len(out) : out[j].io = "ok"

\* ------------------------------------------------------------------------
\* C1: In a NotAuthenticated session every script-management command that
\* ingest parses is rejected by validation with the ManageSieve error
\* "Not authenticated.": that error is the one write made for it, its handler
\* is never run and the rate limiter is never consulted for it.  The same
\* verdict holds for each of the nine commands of that arm.
\* ------------------------------------------------------------------------
C1_NotAuthenticatedRejected ==
    /\ \A i \in 1..Len(parsed) :
         (ParsedCommand(i, ScriptCommands) /\ parsed[i].state.tag = "NotAuthenticated")
            => /\ RejectedWith(i, ErrNotAuthenticated)
               /\ CallsFor(i) = {}
    /\ state.tag = "NotAuthenticated"
         => \A c \in ScriptCommands, lim \in LimiterOutcomes :
              LET v == validate_request(c, state, is_tls, allow_plain_auth,
                                        rate_requests, lim)
              IN /\ ~v.ok
                 /\ v.limiter = <<>>
                 /\ v.err.inner = "ManageSieve"
                 /\ value_as_str(v.err, "Details") = Some("Not authenticated.")

\* a call that rejected a script command of an unauthenticated client while
\* running the handler of another command of the same delivery
C1_Witness ==
    /\ pc = "returned"
    /\ result = "Continue"
    /\ handled # <<>>
    /\ \E i \in 1..Len(parsed) :
         /\ ParsedCommand(i, ScriptCommands)
         /\ parsed[i].state.tag = "NotAuthenticated"
         /\ \E j \in OutFor(i) : out[j].io = "ok"

\* ------------------------------------------------------------------------
\* C2: A delivery of two complete pipelined commands gets exactly two
\* responses, the response to the first command written before the response
\* to the second, whatever the outcomes.  Stated for the calls that return
\* Continue, i.e. without a transport failure and without an answered Logout
\* or StartTls.
\* ------------------------------------------------------------------------
TwoCompleteCommands(d) ==
    Len(d) = 2 /\ \A i \in 1..2 : d[i].t \in {"line", "rest"}

C2_TwoResponsesInCommandOrder ==
    (pc = "returned" /\ result = "Continue" /\ TwoCompleteCommands(delivery))
        => /\ Len(out) = 2
           /\ out[1].idx = 1
           /\ out[2].idx = 2

\* ------------------------------------------------------------------------
\* C3: Authenticate passes validation exactly when the session is
\* NotAuthenticated and the transport is secured or plain-text authentication
\* is allowed.  NotAuthenticated on an unsecured transport without plain auth
\* it is rejected with code EncryptNeeded, Authenticated it is rejected with
\* "Already authenticated." whatever the transport; a rejected Authenticate
\* never reaches its handler and leaves the State as it was.
\* ------------------------------------------------------------------------
C3_AuthenticateValidation ==
    \A i \in 1..Len(parsed) :
        ParsedCommand(i, {"Authenticate"}) =>
            LET st == parsed[i].state
                tls == parsed[i].tls
            IN /\ parsed[i].valid
                    <=> (st.tag = "NotAuthenticated" /\ (tls \/ allow_plain_auth))
               /\ parsed[i].valid => Accepted(i)
               /\ (st.tag = "NotAuthenticated" /\ ~tls /\ ~allow_plain_auth)
                    => /\ RejectedWith(i, ErrEncryptNeeded)
                       /\ value_as_str(ErrEncryptNeeded, "Code") = Some("EncryptNeeded")
               /\ st.tag = "Authenticated"
                    => /\ RejectedWith(i, ErrAlreadyAuthenticated)
                       /\ value_as_str(ErrAlreadyAuthenticated, "Details")
                            = Some("Already authenticated.")
               /\ (~parsed[i].valid /\ handled = <<>>) => state = st

\* an Authenticate rejected as already authenticated on a secured transport
C3_Witness ==
    /\ pc = "returned"
    /\ \E i \in 1..Len(parsed) :
         /\ ParsedCommand(i, {"Authenticate"})
         /\ parsed[i].state.tag = "Authenticated"
         /\ parsed[i].tls
         /\ \E j \in OutFor(i) : out[j].io = "ok"

\* ------------------------------------------------------------------------
\* C4: StartTls passes validation exactly when the transport is not secured.
\* With the transport secured once ingest has returned UpgradeTls, ingest
\* returns UpgradeTls at most once on a connection, and a StartTls parsed on
\* the secured transport is rejected with "Already in TLS mode." without its
\* handler being run.
\* ------------------------------------------------------------------------
C4_StartTlsOnce ==
    /\ \A i \in 1..Len(parsed) :
         ParsedCommand(i, {"StartTls"}) =>
            /\ parsed[i].valid <=> ~parsed[i].tls
            /\ parsed[i].valid => Accepted(i)
            /\ parsed[i].tls => RejectedWith(i, ErrAlreadyTls)
    /\ upgrades <= 1
    /\ (upgrades = 1 /\ ~(pc = "returned" /\ result = "UpgradeTls")) => is_tls

\* a StartTls rejected on a connection that was upgraded before
C4_Witness ==
    /\ upgrades = 1
    /\ pc = "returned"
    /\ \E i \in 1..Len(parsed) :
         /\ ParsedCommand(i, {"StartTls"})
         /\ parsed[i].tls
         /\ \E j \in OutFor(i) : out[j].io = "ok"

\* ------------------------------------------------------------------------
\* C5: In an Authenticated session with a request rate configured, each
\* script-management command makes one limiter lookup, keyed "ireq:" and the
\* account id.  Quota exceeded: rejected with TooManyRequests, code TryLater,
\* handler not run.  Lookup failed: the store's error, annotated with the
\* call site, is the response, handler not run.  Allowed: the command is
\* batched.  Without a configured rate no lookup is made and the command
\* passes.
\* ------------------------------------------------------------------------
C5_RateLimiter ==
    \A i \in 1..Len(parsed) :
        (ParsedCommand(i, ScriptCommands) /\ parsed[i].state.tag = "Authenticated")
            => IF rate_requests
               THEN /\ Cardinality(CallsFor(i)) = 1
                    /\ \A k \in CallsFor(i) :
                         /\ calls[k].key = <<"ireq:", parsed[i].state.account_id>>
                         /\ calls[k].outcome = "allowed" => Accepted(i)
                         /\ calls[k].outcome = "exceeded"
                              => /\ RejectedWith(i, ErrTooManyRequests)
                                 /\ ErrTooManyRequests.inner = "TooManyRequests"
                                 /\ value_as_str(ErrTooManyRequests, "Code") = Some("TryLater")
                         /\ calls[k].outcome = "failed"
                              => /\ ~parsed[i].valid
                                 /\ i \notin BatchedIdx \cup HandledIdx
                                 /\ Cardinality(OutFor(i)) = 1
                                 /\ \A j \in OutFor(i) :
                                      /\ out[j].kind = "error"
                                      /\ out[j].err.inner = ErrLookupStore.inner
                                      /\ value_as_str(out[j].err, "CausedBy")
                                           = Some(LocationRateLimit)
               ELSE /\ CallsFor(i) = {}
                    /\ Accepted(i)

\* a script command of an authenticated client answered TryLater
C5_Witness ==
    /\ pc = "returned"
    /\ result = "Continue"
    /\ \E i \in 1..Len(parsed), k \in 1..Len(calls) :
         /\ ParsedCommand(i, ScriptCommands)
         /\ calls[k].idx = i
         /\ calls[k].outcome = "exceeded"
         /\ calls[k].key = <<"ireq:", state.account_id>>
         /\ \E j \in OutFor(i) : out[j].io = "ok"

\* ------------------------------------------------------------------------
\* C6: Once the handler of a batched Logout (StartTls) has returned Ok and
\* its response is written, ingest has returned Close (UpgradeTls): that
\* response is the last write of the call and that handler the last one run,
\* whatever is left in the batch.
\* ------------------------------------------------------------------------
C6_TerminalCommands ==
    \A j \in 1..Len(out) :
        (out[j].io = "ok" /\ ResponseOf(j, {"Logout", "StartTls"}))
            => /\ j = Len(out)
               /\ handled[Len(handled)].idx = out[j].idx
               /\ pc = "returned"
               /\ result = IF parsed[out[j].idx].command = "Logout"
                           THEN "Close" ELSE "UpgradeTls"

\* an answered StartTls with a validated command left behind in the batch
C6_Witness ==
    /\ requests # <<>>
    /\ \E j \in 1..Len(out) : out[j].io = "ok" /\ ResponseOf(j, {"StartTls"})

\* ------------------------------------------------------------------------
\* C7: A write of ingest whose write_all or flush fails is the last thing
\* the call does: ingest has returned Close, nothing more is written, and no
\* step of the session (parse, handler, write, read) follows.
\* ------------------------------------------------------------------------
C7_WriteFailureCloses ==
    \A j \in 1..Len(out) :
        out[j].io # "ok"
            => /\ j = Len(out)
               /\ pc = "returned"
               /\ result = "Close"
               /\ ~ENABLED Next

\* a failed flush with validated commands left in the batch
C7_Witness ==
    /\ requests # <<>>
    /\ \E j \in 1..Len(out) : out[j].io = "flush"

\* ------------------------------------------------------------------------
\* C8: A syntax error, a validation rejection and a handler error each get
\* exactly one write and do not end the session: ingest returns Close only
\* after a failed write or an answered Logout; a call that returns Continue
\* has run the handler of every command that passed validation; a rejection
\* leaves the State as it was.
\* ------------------------------------------------------------------------
C8_LocalFailuresKeepConnection ==
    /\ \A i \in 1..Len(parsed) :
         /\ (parsed[i].outcome = "Error" \/ (parsed[i].outcome = "Ok" /\ ~parsed[i].valid))
               => Cardinality(OutFor(i)) = 1
         /\ i \in HandledIdx => Cardinality(OutFor(i)) = 1
         /\ (parsed[i].outcome = "Ok" /\ ~parsed[i].valid /\ handled = <<>>)
               => state = parsed[i].state
    /\ (pc = "returned" /\ result = "Close")
         => /\ out # <<>>
            /\ \/ out[Len(out)].io # "ok"
               \/ ResponseOf(Len(out), {"Logout"})
    /\ (pc = "returned" /\ result = "Continue")
         => /\ requests = <<>>
            /\ \A i \in 1..Len(parsed) : parsed[i].valid => i \in HandledIdx

\* a handler error followed by the response of the next batched command
C8_Witness ==
    /\ pc = "returned"
    /\ result = "Continue"
    /\ \E j \in 1..Len(out) - 1 :
         /\ out[j].kind = "error"
         /\ parsed[out[j].idx].valid
         /\ out[j + 1].kind = "response"

\* ------------------------------------------------------------------------
\* C9 as claimed: whenever the parse loop ended on NeedsLiteral, ingest
\* writes the acknowledgement exactly once and returns Continue (stated for
\* the calls in which no write fails).
\* ------------------------------------------------------------------------
LoopEndedOnLiteral ==
    parsed # <<>> /\ parsed[Len(parsed)].outcome = "NeedsLiteral"
ReadyWrites == {j \in 1..Len(out) : out[j].kind = "ready"}

C9_AlwaysAcknowledged ==
    (pc = "returned" /\ LoopEndedOnLiteral /\ AllWritesOk)
        => /\ Cardinality(ReadyWrites) = 1
           /\ result = "Continue"

\* ------------------------------------------------------------------------
\* C9 amended: when the parse loop ended on NeedsLiteral(N) and the
\* execution loop ran to its end (no write failed, no batched Logout or
\* StartTls was answered), ingest writes "OK Ready for N bytes." exactly
\* once, after the responses of all batched commands, and returns Continue,
\* or Close if that write fails; when the execution loop returned early the
\* acknowledgement is not written; it is never written when the parse loop
\* ended for another reason.
\* ------------------------------------------------------------------------
ReturnedEarly ==
    \E j \in 1..Len(out) :
        /\ out[j].kind # "ready"
        /\ \/ out[j].io # "ok"
           \/ ResponseOf(j, {"Logout", "StartTls"})

C9_LiteralAck ==
    /\ Cardinality(ReadyWrites) <= 1
    /\ \A j \in ReadyWrites :
         /\ LoopEndedOnLiteral
         /\ out[j].size = delivery[Len(parsed)].size
         /\ j = Len(out)
         /\ requests = <<>>
         /\ \A i \in 1..Len(parsed) : parsed[i].valid => i \in HandledIdx
         /\ pc = "returned"
         /\ result = IF out[j].io = "ok" THEN "Continue" ELSE "Close"
    /\ (pc = "returned" /\ LoopEndedOnLiteral)
         => IF ReturnedEarly THEN ReadyWrites = {} ELSE Cardinality(ReadyWrites) = 1
    /\ ~LoopEndedOnLiteral => ReadyWrites = {}

\* an acknowledgement written after the response of a batched command
C9_Witness ==
    /\ pc = "returned"
    /\ result = "Continue"
    /\ Len(out) >= 2
    /\ out[Len(out)].kind = "ready"
    /\ out[Len(out) - 1].kind = "response"

\* ------------------------------------------------------------------------
\* C10: ingest parses every complete command of a delivery; in particular a
\* complete well-formed command that follows a malformed one in the same
\* delivery is still parsed, validated and answered.  Stated for the calls
\* that return Continue and the commands no literal announcement precedes.
\* ------------------------------------------------------------------------
C10_CommandAfterSyntaxErrorAnswered ==
    (pc = "returned" /\ result = "Continue")
        => \A i \in 1..Len(delivery) :
              (/\ delivery[i].t = "line"
               /\ \E k \in 1..(i - 1) : delivery[k].t = "bad"
               /\ \A k \in 1..(i - 1) : delivery[k].t # "literal")
                 => /\ i <= Len(parsed)
                    /\ OutFor(i) # {}

\* ------------------------------------------------------------------------
\* C11: a command split across two deliveries is processed exactly once.
\* The call that receives the first bytes ends its parse loop on
\* needs-more-data with the parser holding them, answers nothing for the
\* command and returns Continue; the call that receives the remaining bytes
\* completes that command first, and it is validated once, dispatched at most
\* once and answered once.  Stated for the calls that return Continue.
\* ------------------------------------------------------------------------
C11_SplitCommandProcessedOnce ==
    /\ (/\ pc = "returned" /\ result = "Continue"
        /\ delivery # <<>>
        /\ delivery[Len(delivery)].t = "partial")
          => /\ receiver = Some(Request(delivery[Len(delivery)].command))
             /\ OutFor(Len(delivery)) = {}
             /\ Len(delivery) \notin HandledIdx
    /\ (/\ pc = "returned" /\ result = "Continue"
        /\ delivery # <<>>
        /\ delivery[1].t = "rest")
          => /\ parsed[1].outcome = "Ok"
             /\ parsed[1].command \in SplitCommands
             /\ Cardinality({k \in 1..Len(out) : out[k].idx = 1}) = 1
             /\ Cardinality({k \in 1..Len(handled) : handled[k].idx = 1})
                   = (IF parsed[1].valid THEN 1 ELSE 0)

\* ------------------------------------------------------------------------
\* SetActive: the store, the name lookup and the handler
\* ------------------------------------------------------------------------
\* document ids an account can hold
MaxDocs == 2
DocIds == 1..MaxDocs
\* names of stored scripts; the client may also send the empty name
Names == {"a", "b"}
InputNames == Names \cup {""}
\* the tokens of a SETACTIVE request: none, the name, the name and more
Tokens ==
    {<<>>} \cup {<<n>> : n \in InputNames} \cup {<<n, "a">> : n \in InputNames}

CollaboratorOutcomes == {"ok", "failed"}

\* a stored sieve script
Document(account_id, document_id, name) ==
    [account_id |-> account_id, document_id |-> document_id, name |-> name]

\* the stores the session can find: an id names one script of an account
Stores ==
    {docs \in SUBSET {Document(a, i, n) : a \in AccountIds, i \in DocIds, n \in Names} :
        \A d, e \in docs :
            (d.account_id = e.account_id /\ d.document_id = e.document_id) => d = e}

\* at most one script of an account is active, and it is a stored one
ActiveSets(docs) ==
    {act \in [AccountIds -> SUBSET DocIds] :
        \A a \in AccountIds :
            /\ Cardinality(act[a]) <= 1
            /\ \A i \in act[a] : \E d \in docs : d.account_id = a /\ d.document_id = i}

\* store.filter(account_id, Collection::SieveScript, [Filter::eq(Name, name)]):
\* the ids of the account's scripts carrying exactly that name
filter(docs, account_id, name) ==
    {d.document_id : d \in {x \in docs : x.account_id = account_id /\ x.name = name}}

\* results.results.min()
min(results) ==
    IF results = {} THEN None
    ELSE Some(CHOOSE x \in results : \A y \in results : x <= y)

\* the highest id
max(results) ==
    IF results = {} THEN None
    ELSE Some(CHOOSE x \in results : \A y \in results : x >= y)

\* a set of ids in ascending order
Ascending(ids) ==
    CHOOSE seq \in [1..Cardinality(ids) -> ids] :
        \A i, j \in 1..Cardinality(ids) : i < j => seq[i] < seq[j]

ErrStore == into_err("StoreDataCorruption")
ErrNonExistent ==
    reason(code(into_err("ManageSieve"), "NonExistent"),
           "There is no script by that name")
ErrExpectedName ==
    details(into_err("ManageSieve"), "Expected script name as a parameter.")
LocationGetScriptId == "crates/managesieve/src/core/client.rs:241"

\* one call of a collaborator by handle_setactive
Call(call, account_id, name, target, changelog, outcome) ==
    [call |-> call, account_id |-> account_id, name |-> name, target |-> target,
     changelog |-> changelog, outcome |-> outcome]

\* the lookup answering with the highest id
get_script_id_highest(docs, account_id, name, fo) ==
    IF fo = "failed"
    THEN [ok |-> FALSE, id |-> None,
          err |-> caused_by(ErrStore, LocationGetScriptId)]
    ELSE LET results == filter(docs, account_id, name) IN
         IF max(results) = None
         THEN [ok |-> FALSE, id |-> None, err |-> ErrNonExistent]
         ELSE [ok |-> TRUE, id |-> max(results), err |-> NoError]

\* Session::get_script_id: fo is what the store does with the query
get_script_id(docs, account_id, name, fo) ==
    IF fo = "failed"
    THEN [ok |-> FALSE, id |-> None,
          err |-> caused_by(ErrStore, LocationGetScriptId)]
    ELSE LET results == filter(docs, account_id, name) IN
         IF min(results) = None
         THEN [ok |-> FALSE, id |-> None, err |-> ErrNonExistent]
         ELSE [ok |-> TRUE, id |-> min(results), err |-> NoError]

\* jmap.sieve_activate_script(account_id, target): every other active script
\* of the account is deactivated and the target, unless it is active already,
\* is activated; the answer lists the documents whose flag changed
sieve_activate_script(act, account_id, target, ao) ==
    IF ao = "failed"
    THEN [ok |-> FALSE, changes |-> <<>>, active |-> act, err |-> ErrStore]
    ELSE LET before == act[account_id]
             after == {target[i] : i \in 1..Len(target)}
             changed == Ascending((before \ after) \cup (after \ before))
         IN [ok |-> TRUE,
             changes |-> [i \in 1..Len(changed) |-> <<changed[i], changed[i] \in after>>],
             active |-> [act EXCEPT ![account_id] = after],
             err |-> NoError]

\* ChangeLogBuilder::log_update(Collection::SieveScript, document_id)
log_update(changelog, collection, document_id) ==
    Append(changelog, [collection |-> collection, document_id |-> document_id,
                       change |-> "update"])

\* the change log handle_setactive builds from the changes
RECURSIVE build_changelog(_, _)
build_changelog(changelog, changes) ==
    IF changes = <<>> THEN changelog
    ELSE build_changelog(log_update(changelog, "SieveScript", Head(changes)[1]),
                         Tail(changes))

\* the handler going on without a target when the lookup fails
handle_setactive_lenient_lookup(st, tokens, docs, act, fo, ao, co) ==
    IF tokens = <<>>
    THEN [ok |-> FALSE, err |-> ErrExpectedName, response |-> "", calls |-> <<>>,
          changes |-> <<>>, active |-> act]
    ELSE
    LET name == Head(tokens)
        account_id == st.account_id
        looked == name # ""
        lookup == get_script_id(docs, account_id, name, fo)
        calls1 == IF looked
                  THEN <<Call("filter", account_id, name, None, <<>>, fo)>>
                  ELSE <<>>
    IN
    IF FALSE
    THEN [ok |-> FALSE, err |-> lookup.err, response |-> "", calls |-> calls1,
          changes |-> <<>>, active |-> act]
    ELSE
    LET target == IF looked /\ lookup.ok THEN lookup.id ELSE None
        activation == sieve_activate_script(act, account_id, target, ao)
        calls2 == Append(calls1, Call("activate", account_id, "", target, <<>>, ao))
    IN
    IF ~activation.ok
    THEN [ok |-> FALSE, err |-> activation.err, response |-> "", calls |-> calls2,
          changes |-> <<>>, active |-> act]
    ELSE
    LET changes == activation.changes
        changelog == build_changelog(<<>>, changes)
        committed == changes # <<>>
        calls3 == IF committed
                  THEN Append(calls2, Call("commit", account_id, "", None, changelog, co))
                  ELSE calls2
    IN
    IF committed /\ co = "failed"
    THEN [ok |-> FALSE, err |-> ErrStore, response |-> "", calls |-> calls3,
          changes |-> changes, active |-> activation.active]
    ELSE [ok |-> TRUE, err |-> NoError, response |-> "Success", calls |-> calls3,
          changes |-> changes, active |-> activation.active]

\* the handler looking up every name, the empty one included
handle_setactive_always_lookup(st, tokens, docs, act, fo, ao, co) ==
    IF tokens = <<>>
    THEN [ok |-> FALSE, err |-> ErrExpectedName, response |-> "", calls |-> <<>>,
          changes |-> <<>>, active |-> act]
    ELSE
    LET name == Head(tokens)
        account_id == st.account_id
        looked == TRUE
        lookup == get_script_id(docs, account_id, name, fo)
        calls1 == IF looked
                  THEN <<Call("filter", account_id, name, None, <<>>, fo)>>
                  ELSE <<>>
    IN
    IF looked /\ ~lookup.ok
    THEN [ok |-> FALSE, err |-> lookup.err, response |-> "", calls |-> calls1,
          changes |-> <<>>, active |-> act]
    ELSE
    LET target == IF looked THEN lookup.id ELSE None
        activation == sieve_activate_script(act, account_id, target, ao)
        calls2 == Append(calls1, Call("activate", account_id, "", target, <<>>, ao))
    IN
    IF ~activation.ok
    THEN [ok |-> FALSE, err |-> activation.err, response |-> "", calls |-> calls2,
          changes |-> <<>>, active |-> act]
    ELSE
    LET changes == activation.changes
        changelog == build_changelog(<<>>, changes)
        committed == changes # <<>>
        calls3 == IF committed
                  THEN Append(calls2, Call("commit", account_id, "", None, changelog, co))
                  ELSE calls2
    IN
    IF committed /\ co = "failed"
    THEN [ok |-> FALSE, err |-> ErrStore, response |-> "", calls |-> calls3,
          changes |-> changes, active |-> activation.active]
    ELSE [ok |-> TRUE, err |-> NoError, response |-> "Success", calls |-> calls3,
          changes |-> changes, active |-> activation.active]

\* the handler committing a change log whatever the changes
handle_setactive_always_commit(st, tokens, docs, act, fo, ao, co) ==
    IF tokens = <<>>
    THEN [ok |-> FALSE, err |-> ErrExpectedName, response |-> "", calls |-> <<>>,
          changes |-> <<>>, active |-> act]
    ELSE
    LET name == Head(tokens)
        account_id == st.account_id
        looked == name # ""
        lookup == get_script_id(docs, account_id, name, fo)
        calls1 == IF looked
                  THEN <<Call("filter", account_id, name, None, <<>>, fo)>>
                  ELSE <<>>
    IN
    IF looked /\ ~lookup.ok
    THEN [ok |-> FALSE, err |-> lookup.err, response |-> "", calls |-> calls1,
          changes |-> <<>>, active |-> act]
    ELSE
    LET target == IF looked THEN lookup.id ELSE None
        activation == sieve_activate_script(act, account_id, target, ao)
        calls2 == Append(calls1, Call("activate", account_id, "", target, <<>>, ao))
    IN
    IF ~activation.ok
    THEN [ok |-> FALSE, err |-> activation.err, response |-> "", calls |-> calls2,
          changes |-> <<>>, active |-> act]
    ELSE
    LET changes == activation.changes
        changelog == build_changelog(<<>>, changes)
        committed == TRUE
        calls3 == IF committed
                  THEN Append(calls2, Call("commit", account_id, "", None, changelog, co))
                  ELSE calls2
    IN
    IF committed /\ co = "failed"
    THEN [ok |-> FALSE, err |-> ErrStore, response |-> "", calls |-> calls3,
          changes |-> changes, active |-> activation.active]
    ELSE [ok |-> TRUE, err |-> NoError, response |-> "Success", calls |-> calls3,
          changes |-> changes, active |-> activation.active]

\* Session::handle_setactive in session State st, on the store (docs, act);
\* fo, ao and co are what the store does with the query, the activation and
\* the commit
handle_setactive(st, tokens, docs, act, fo, ao, co) ==
    IF tokens = <<>>
    THEN [ok |-> FALSE, err |-> ErrExpectedName, response |-> "", calls |-> <<>>,
          changes |-> <<>>, active |-> act]
    ELSE
    LET name == Head(tokens)
        account_id == st.account_id
        looked == name # ""
        lookup == get_script_id(docs, account_id, name, fo)
        calls1 == IF looked
                  THEN <<Call("filter", account_id, name, None, <<>>, fo)>>
                  ELSE <<>>
    IN
    IF looked /\ ~lookup.ok
    THEN [ok |-> FALSE, err |-> lookup.err, response |-> "", calls |-> calls1,
          changes |-> <<>>, active |-> act]
    ELSE
    LET target == IF looked THEN lookup.id ELSE None
        activation == sieve_activate_script(act, account_id, target, ao)
        calls2 == Append(calls1, Call("activate", account_id, "", target, <<>>, ao))
    IN
    IF ~activation.ok
    THEN [ok |-> FALSE, err |-> activation.err, response |-> "", calls |-> calls2,
          changes |-> <<>>, active |-> act]
    ELSE
    LET changes == activation.changes
        changelog == build_changelog(<<>>, changes)
        committed == changes # <<>>
        calls3 == IF committed
                  THEN Append(calls2, Call("commit", account_id, "", None, changelog, co))
                  ELSE calls2
    IN
    IF committed /\ co = "failed"
    THEN [ok |-> FALSE, err |-> ErrStore, response |-> "", calls |-> calls3,
          changes |-> changes, active |-> activation.active]
    ELSE [ok |-> TRUE, err |-> NoError, response |-> "Success", calls |-> calls3,
          changes |-> changes, active |-> activation.active]

\* a SETACTIVE request is handled by an authenticated session
HandleSetActive ==
    /\ state.tag = "Authenticated"
    /\ setactive = None
    /\ \E tokens \in Tokens : \E fo, ao, co \in CollaboratorOutcomes :
          LET r == handle_setactive(state, tokens, documents, active, fo, ao, co) IN
          /\ setactive' = Some([tokens |-> tokens, account_id |-> state.account_id,
                                before |-> active, ok |-> r.ok, err |-> r.err,
                                response |-> r.response, calls |-> r.calls,
                                changes |-> r.changes])
          /\ active' = r.active
    /\ UNCHANGED <<session_vars, documents, context_vars>>

\* an authenticated session over any store
InitSetActive ==
    /\ state \in {Authenticated(a) : a \in AccountIds}
    /\ is_tls = TRUE
    /\ allow_plain_auth = FALSE
    /\ rate_requests = FALSE
    /\ receiver = None
    /\ pc = "execute"
    /\ bytes = <<>>
    /\ requests = <<>>
    /\ needs_literal = None
    /\ result = "Continue"
    /\ delivery = <<>>
    /\ parsed = <<>>
    /\ out = <<>>
    /\ handled = <<>>
    /\ calls = <<>>
    /\ upgrades = 0
    /\ documents \in Stores
    /\ active \in ActiveSets(documents)
    /\ setactive = None
    /\ context = NoError
    /\ debug_assertions = FALSE
    /\ panicked = FALSE
    /\ appended = <<>>
    /\ wrapped = None
    /\ taken = None

NextSetActive == HandleSetActive

SpecSetActive == InitSetActive /\ [][NextSetActive]_vars

\* the calls of one collaborator made by the last handle_setactive call
SetActiveCalls(call) ==
    {k \in 1..Len(setactive[1].calls) : setactive[1].calls[k].call = call}
\* the last handle_setactive call was given this name
SetActiveNamed(names) ==
    /\ setactive # None
    /\ setactive[1].tokens # <<>>
    /\ Head(setactive[1].tokens) \in names
\* every collaborator the call reached did its work
CollaboratorsOk ==
    \A k \in 1..Len(setactive[1].calls) : setactive[1].calls[k].outcome = "ok"
\* the account's stored scripts carrying the name the call was given
Matches ==
    {d \in documents : /\ d.account_id = setactive[1].account_id
                       /\ d.name = Head(setactive[1].tokens)}

\* ------------------------------------------------------------------------
\* C12: handle_setactive with an empty name makes no name lookup and never
\* fails with NonExistent; its first collaborator call is the activation with
\* no target for the session's account, and unless a collaborator fails it
\* answers Success, leaving no script of the account active after at most one
\* changed record.
\* ------------------------------------------------------------------------
C12_EmptyNameDeactivates ==
    SetActiveNamed({""})
        => LET c == setactive[1] IN
           /\ SetActiveCalls("filter") = {}
           /\ value_as_str(c.err, "Code") # Some("NonExistent")
           /\ c.err # ErrNonExistent
           /\ Len(c.calls) >= 1
           /\ c.calls[1].call = "activate"
           /\ c.calls[1].target = None
           /\ c.calls[1].account_id = c.account_id
           /\ CollaboratorsOk
                 => /\ c.ok
                    /\ c.response = "Success"
                    /\ active[c.account_id] = {}
                    /\ Len(c.changes) <= 1

C12_Witness ==
    /\ SetActiveNamed({""})
    /\ setactive[1].ok
    /\ setactive[1].before[setactive[1].account_id] # {}
    /\ active[setactive[1].account_id] = {}
    /\ SetActiveCalls("commit") # {}

\* ------------------------------------------------------------------------
\* C13: handle_setactive with a non-empty name that no stored script of the
\* account carries fails; neither the activation nor the commit is invoked
\* and the active scripts are what they were; when the store answered the
\* query the error is the ManageSieve error with code NonExistent.
\* ------------------------------------------------------------------------
C13_NoMatchNonExistent ==
    (SetActiveNamed(Names) /\ Matches = {})
        => LET c == setactive[1] IN
           /\ ~c.ok
           /\ SetActiveCalls("activate") = {}
           /\ SetActiveCalls("commit") = {}
           /\ active = c.before
           /\ CollaboratorsOk
                 => /\ c.err.inner = "ManageSieve"
                    /\ value_as_str(c.err, "Code") = Some("NonExistent")
                    /\ value_as_str(c.err, "Reason") = Some("There is no script by that name")

C13_Witness ==
    /\ SetActiveNamed(Names)
    /\ Matches = {}
    /\ CollaboratorsOk
    /\ value_as_str(setactive[1].err, "Code") = Some("NonExistent")
    /\ \E d \in documents : /\ d.account_id # setactive[1].account_id
                            /\ d.name = Head(setactive[1].tokens)
    /\ active[setactive[1].account_id] # {}

\* ------------------------------------------------------------------------
\* C14: handle_setactive commits a change log exactly when the activation
\* returned a non-empty set of changed records: then once, for the session's
\* account, with exactly one SieveScript update entry per changed document;
\* with no changed record there is no commit and the answer is Success.
\* ------------------------------------------------------------------------
C14_CommitIffChanges ==
    setactive # None
        => LET c == setactive[1]
               commits == SetActiveCalls("commit")
               activated == \E k \in SetActiveCalls("activate") : c.calls[k].outcome = "ok"
               changed == (c.before[c.account_id] \ active[c.account_id])
                             \cup (active[c.account_id] \ c.before[c.account_id])
           IN
           /\ Cardinality(commits) = (IF activated /\ c.changes # <<>> THEN 1 ELSE 0)
           /\ activated => {c.changes[i][1] : i \in 1..Len(c.changes)} = changed
           /\ \A k \in commits :
                 /\ c.calls[k].account_id = c.account_id
                 /\ Len(c.calls[k].changelog) = Cardinality(changed)
                 /\ \A d \in changed :
                       Cardinality({i \in 1..Len(c.calls[k].changelog) :
                                       c.calls[k].changelog[i]
                                          = [collection |-> "SieveScript",
                                             document_id |-> d,
                                             change |-> "update"]}) = 1
           /\ (activated /\ c.changes = <<>>) => (c.ok /\ c.response = "Success")

C14_Witness ==
    /\ setactive # None
    /\ setactive[1].ok
    /\ Len(setactive[1].changes) = 2
    /\ \E k \in SetActiveCalls("commit") : Len(setactive[1].calls[k].changelog) = 2

\* ------------------------------------------------------------------------
\* C15: for a non-empty name get_script_id makes one query for the session's
\* account and that name; the activation is reached exactly when the query
\* is answered and some stored script of the account carries the name, and
\* its target is then the lowest id among those scripts.
\* ------------------------------------------------------------------------
C15_LowestIdWins ==
    SetActiveNamed(Names)
        => LET c == setactive[1]
               queries == SetActiveCalls("filter")
               activations == SetActiveCalls("activate")
           IN
           /\ queries = {1}
           /\ c.calls[1].account_id = c.account_id
           /\ c.calls[1].name = Head(c.tokens)
           /\ (activations # {}) <=> (c.calls[1].outcome = "ok" /\ Matches # {})
           /\ \A k \in activations :
                 /\ c.calls[k].target # None
                 /\ \E d \in Matches :
                       /\ d.document_id = c.calls[k].target[1]
                       /\ \A e \in Matches : d.document_id <= e.document_id

C15_Witness ==
    /\ SetActiveNamed(Names)
    /\ Cardinality(Matches) >= 2
    /\ \E k \in SetActiveCalls("activate") : setactive[1].calls[k].target = Some(1)
    /\ \E d \in documents : /\ d.account_id # setactive[1].account_id
                            /\ d.name = Head(setactive[1].tokens)

\* ------------------------------------------------------------------------
\* Error context: annotations appended to an error, and Error::wrap
\* ------------------------------------------------------------------------
\* the keys and values the callers annotate with, the root causes
Keys == {"CausedBy", "Details"}
Values == {Static("a"), Static("b")}
Causes == {"ManageSieve", "StoreError"}
\* ctx and wrap calls made on one error
MaxOps == N + 1

\* the calls made so far
Ops == Len(appended) + (IF wrapped = None THEN 0 ELSE wrapped[1].ops)
\* what the first calls appended, as far as the capacity goes
Live(pairs) == SubSeq(pairs, 1, IF Len(pairs) < N THEN Len(pairs) ELSE N)

\* error.ctx(key, value)
Ctx ==
    /\ ~panicked
    /\ Ops < MaxOps
    /\ \E key \in Keys : \E v \in Values :
          /\ appended' = Append(appended, <<key, v>>)
          /\ IF ctx_panics(debug_assertions, context)
             THEN panicked' = TRUE /\ UNCHANGED context
             ELSE context' = ctx(context, key, v) /\ UNCHANGED panicked
    /\ UNCHANGED <<session_vars, store_vars, debug_assertions, wrapped, taken>>

\* error.wrap(cause)
Wrap ==
    /\ ~panicked
    /\ Ops < MaxOps
    /\ wrapped = None
    /\ \E cause \in Causes :
          /\ context' = wrap(context, cause)
          /\ wrapped' = Some([cause |-> cause, inner |-> context.inner,
                              annotations |-> Live(appended), ops |-> Len(appended)])
    /\ appended' = <<<<"CausedBy", ErrorValue(context)>>>>
    /\ UNCHANGED <<session_vars, store_vars, debug_assertions, panicked, taken>>

\* Error::new(cause) in either build
InitContext ==
    /\ state = NotAuthenticated
    /\ is_tls = TRUE
    /\ allow_plain_auth = FALSE
    /\ rate_requests = FALSE
    /\ receiver = None
    /\ pc = "read"
    /\ bytes = <<>>
    /\ requests = <<>>
    /\ needs_literal = None
    /\ result = "Continue"
    /\ delivery = <<>>
    /\ parsed = <<>>
    /\ out = <<>>
    /\ handled = <<>>
    /\ calls = <<>>
    /\ upgrades = 0
    /\ documents = {}
    /\ active = [a \in AccountIds |-> {}]
    /\ setactive = None
    /\ context = new("ManageSieve")
    /\ debug_assertions \in BOOLEAN
    /\ panicked = FALSE
    /\ appended = <<>>
    /\ wrapped = None
    /\ taken = None

NextContext == Ctx \/ Wrap

SpecContext == InitContext /\ [][NextContext]_vars

\* the annotations of an error that are live, in order
Annotations(e) == [i \in 1..e.keys_size |-> e.keys[i]]
\* what a lookup of key must answer after these ctx calls
FirstOf(pairs, key) ==
    IF \A i \in 1..Len(Live(pairs)) : pairs[i][1] # key
    THEN None
    ELSE LET i == CHOOSE i \in 1..Len(Live(pairs)) :
                     /\ pairs[i][1] = key
                     /\ \A j \in 1..(i - 1) : pairs[j][1] # key
         IN Some(pairs[i][2])

\* ------------------------------------------------------------------------
\* C16: annotations are append-only up to the capacity N.  After k ctx calls
\* on a new context keys_size is min(k, N), between 0 and N, and the live
\* annotations are the first min(k, N) pairs given to ctx, in that order: a
\* call on a full context changed neither keys_size nor an entry.  That call
\* panicked in a build with debug_assertions and returned in the other.
\* ------------------------------------------------------------------------
C16_AppendOnlyUpToCapacity ==
    /\ 0 <= context.keys_size /\ context.keys_size <= N
    /\ context.keys_size = Len(Live(appended))
    /\ \A i \in 1..context.keys_size : context.keys[i] = appended[i]
    /\ panicked <=> (debug_assertions /\ Len(appended) > N)

C16_Witness ==
    /\ ~debug_assertions
    /\ wrapped = None
    /\ Len(appended) = N + 1
    /\ context.keys_size = N
    /\ appended[N + 1] # appended[N]

\* ------------------------------------------------------------------------
\* C17: value(key) answers the value of the first live annotation carrying
\* the key, in insertion order, and None when no live annotation carries it:
\* a later annotation with the same key is not answered, and the slots from
\* keys_size on are not looked at.
\* ------------------------------------------------------------------------
C17_FirstMatchWins ==
    \A key \in Keys \cup {"Code"} :
        /\ value(context, key) = FirstOf(appended, key)
        /\ (\A i \in 1..context.keys_size : context.keys[i][1] # key)
              => value(context, key) = None

C17_Witness ==
    /\ Len(appended) >= 2
    /\ Len(appended) < N
    /\ appended[1][1] = "Details"
    /\ appended[2][1] = "Details"
    /\ appended[1][2] # appended[2][2]
    /\ value(context, "Details") = Some(appended[1][2])
    /\ context.keys[context.keys_size + 1][1] = "CausedBy"
    /\ value(context, "CausedBy") = None

C19_AuthenticatedOnlyByAuthenticate ==
    [][/\ state' \in {NotAuthenticated} \cup {Authenticated(a) : a \in AccountIds}
       /\ (state.tag = "NotAuthenticated" /\ state'.tag = "Authenticated")
             => /\ pc = "execute"
                /\ requests # <<>>
                /\ Head(requests).command = "Authenticate"
                /\ parsed[Head(requests).idx].command = "Authenticate"
                /\ parsed[Head(requests).idx].valid
                /\ parsed[Head(requests).idx].state.tag = "NotAuthenticated"
       /\ state' # state => pc = "execute"
      ]_vars

C19_Witness ==
    /\ handled # <<>>
    /\ handled[Len(handled)].command = "Authenticate"
    /\ handled[Len(handled)].state.tag = "NotAuthenticated"
    /\ state.tag = "Authenticated"
    /\ parsed[handled[Len(handled)].idx].valid
    /\ parsed[handled[Len(handled)].idx].state.tag = "NotAuthenticated"

\* ------------------------------------------------------------------------
\* validate_request on its own: any command, in any session
\* ------------------------------------------------------------------------
\* requests validated in a row
MaxValidated == 2

\* self.validate_request(request).await, as the parse loop calls it
Validate ==
    /\ pc = "parse"
    /\ Len(parsed) < MaxValidated
    /\ \E command \in Command : \E lim \in LimiterOutcomes :
          LET v == validate_request(command, state, is_tls, allow_plain_auth,
                                    rate_requests, lim)
              idx == Len(parsed) + 1
          IN /\ parsed' = Append(parsed, Parsed("Ok", command, v.ok))
             /\ calls' = calls \o [i \in 1..Len(v.limiter) |->
                                      [idx |-> idx, key |-> v.limiter[i],
                                       outcome |-> lim]]
             /\ IF v.ok
                THEN /\ requests' = Append(requests, [command |-> command, idx |-> idx])
                     /\ UNCHANGED out
                ELSE /\ out' = Append(out, Written(idx, "error", v.err, 0, "ok"))
                     /\ UNCHANGED requests
    /\ UNCHANGED <<state, is_tls, config, receiver, pc, bytes, needs_literal, result,
                   delivery, handled, upgrades, op_vars>>

\* a session in any State, on either transport, under any configuration
InitValidate ==
    /\ state \in {NotAuthenticated} \cup {Authenticated(a) : a \in AccountIds}
    /\ is_tls \in BOOLEAN
    /\ allow_plain_auth \in BOOLEAN
    /\ rate_requests \in BOOLEAN
    /\ receiver = None
    /\ pc = "parse"
    /\ bytes = <<>>
    /\ requests = <<>>
    /\ needs_literal = None
    /\ result = "Continue"
    /\ delivery = <<>>
    /\ parsed = <<>>
    /\ out = <<>>
    /\ handled = <<>>
    /\ calls = <<>>
    /\ upgrades = 0
    /\ documents = {}
    /\ active = [a \in AccountIds |-> {}]
    /\ setactive = None
    /\ context = NoError
    /\ debug_assertions = FALSE
    /\ panicked = FALSE
    /\ appended = <<>>
    /\ wrapped = None
    /\ taken = None

NextValidate == Validate

SpecValidate == InitValidate /\ [][NextValidate]_vars

\* ------------------------------------------------------------------------
\* C20: a Capability, Logout or Noop request passes validation in every
\* State, on a secured and on an unsecured transport, under every
\* configuration and whatever the limiter would answer: it is batched,
\* nothing is written for it and the limiter is not consulted for it.
\* ------------------------------------------------------------------------
C20_AlwaysPermitted ==
    \A i \in 1..Len(parsed) :
        parsed[i].command \in {"Capability", "Logout", "Noop"}
            => /\ parsed[i].valid
               /\ i \in BatchedIdx
               /\ OutFor(i) = {}
               /\ CallsFor(i) = {}

\* a Noop passes right after the limiter refused a request of the account
C20_Witness ==
    /\ Len(parsed) = 2
    /\ parsed[1].command = "PutScript"
    /\ \E k \in CallsFor(1) : calls[k].outcome = "exceeded"
    /\ \E j \in OutFor(1) : value_as_str(out[j].err, "Code") = Some("TryLater")
    /\ parsed[2].command \in {"Capability", "Logout", "Noop"}
    /\ parsed[2].valid
    /\ ~is_tls
    /\ state.tag = "Authenticated"

\* ------------------------------------------------------------------------
\* C21: within one delivery the commands that passed validation are run in
\* the order in which they were validated and batched, one handler at a
\* time, and each one's response is written before the next handler starts:
\* the handlers run so far and the writes made for them are in the same,
\* ascending order of the commands, one write per handler, and what is left
\* of the batch comes after them in that order.
\* ------------------------------------------------------------------------
HandlerWrites == {j \in 1..Len(out) : out[j].idx \in HandledIdx}

C21_ResponsesInBatchOrder ==
    [](
      /\ \A k \in 1..(Len(handled) - 1) : handled[k].idx < handled[k + 1].idx
      /\ \A k \in 1..Len(handled) : parsed[handled[k].idx].valid
      /\ \A k \in 1..Len(requests) :
            /\ \A h \in HandledIdx : h < requests[k].idx
            /\ \A l \in 1..(k - 1) : requests[l].idx < requests[k].idx
      /\ Cardinality(HandlerWrites) = Len(handled)
      /\ \A j, l \in HandlerWrites : j < l => out[j].idx < out[l].idx
      /\ \A k \in 1..Len(handled) :
            Cardinality({j \in HandlerWrites : out[j].idx <= handled[k].idx}) = k
    )

C21_Witness ==
    /\ Len(handled) = 2
    /\ pc = "returned"
    /\ result = "Continue"
    /\ \E j, l \in HandlerWrites :
          /\ j < l
          /\ out[j].idx = handled[1].idx
          /\ out[j].kind = "error"
          /\ out[l].idx = handled[2].idx
          /\ out[l].kind = "response"

\* ------------------------------------------------------------------------
\* C22: whenever the execution loop runs the handler of a script-management
\* command, which reads the access token of the State without checking it,
\* the State at that moment is Authenticated, also when an Unauthenticate
\* of the same delivery was run before it.
\* ------------------------------------------------------------------------
C22_ScriptHandlersRunAuthenticated ==
    \A k \in 1..Len(handled) :
        handled[k].command \in ScriptCommands \ {"Unauthenticate"}
            => handled[k].state.tag = "Authenticated"

\* ------------------------------------------------------------------------
\* C23: every command of a delivery is validated against the State and the
\* transport as they stood before any command of that delivery was run.  No
\* handler has run while the parse loop is at work; a script-management
\* command that follows an accepted Authenticate in the delivery is rejected
\* with 'Not authenticated.', whatever that Authenticate does later, and the
\* rejection is written before anything is written for the Authenticate; two
\* Authenticate commands of one delivery get the same verdict.
\* ------------------------------------------------------------------------
C23_ValidatedBeforeAnyExecution ==
    [](
      /\ pc = "parse" => handled = <<>>
      /\ \A i \in 1..Len(parsed) :
            /\ parsed[i].state = parsed[1].state
            /\ parsed[i].tls = parsed[1].tls
      /\ (handled # <<>> /\ parsed # <<>>) => handled[1].state = parsed[1].state
      /\ \A i, j \in 1..Len(parsed) :
            (/\ i < j
             /\ ParsedCommand(i, {"Authenticate"})
             /\ parsed[i].valid
             /\ ParsedCommand(j, ScriptCommands))
               => /\ RejectedWith(j, ErrNotAuthenticated)
                  /\ \A a \in OutFor(i), b \in OutFor(j) : b < a
      /\ \A i, j \in 1..Len(parsed) :
            (ParsedCommand(i, {"Authenticate"}) /\ ParsedCommand(j, {"Authenticate"}))
               => parsed[i].valid = parsed[j].valid
    )

\* the Authenticate succeeded and was answered after the rejection of the
\* script-management command that followed it
C23_Witness ==
    /\ Len(parsed) = 2
    /\ ParsedCommand(1, {"Authenticate"})
    /\ ParsedCommand(2, {"SetActive"})
    /\ state.tag = "Authenticated"
    /\ Len(out) = 2
    /\ out[1].idx = 2
    /\ value_as_str(out[1].err, "Details") = Some("Not authenticated.")
    /\ out[2].idx = 1
    /\ out[2].kind = "response"

\* ------------------------------------------------------------------------
\* Error context: take_value among the ctx and wrap calls
\* ------------------------------------------------------------------------
\* take_value calls made on one error, once it is built
MaxTakes == 1

\* error.take_value(key)
TakeValue ==
    /\ ~panicked
    /\ (IF taken = None THEN 0 ELSE taken[1].n) < MaxTakes
    /\ \E key \in Keys :
          LET r == take_value(context, key) IN
          /\ context' = r.context
          /\ taken' = Some([key |-> key, value |-> r.value, before |-> context,
                            ops |-> Ops,
                            n |-> (IF taken = None THEN 0 ELSE taken[1].n) + 1])
    /\ UNCHANGED <<session_vars, store_vars, debug_assertions, panicked, appended,
                   wrapped>>

\* the error is annotated and wrapped where it is raised and passed on, and
\* its values are taken where it is reported
NextTakeValue == (taken = None /\ (Ctx \/ Wrap)) \/ TakeValue

SpecTakeValue == InitContext /\ [][NextTakeValue]_vars

\* the last call on the error was a take_value
JustTaken == taken # None /\ taken[1].ops = Ops

\* ------------------------------------------------------------------------
\* C24: take_value(key) answers the value of the first live annotation with
\* that key, None if there is none, and puts the default Value in its place:
\* keys_size, the root cause, the key of that slot and every other slot are
\* as before, so that value(key) then answers the default Value of the same
\* slot, neither None nor a later annotation with the key.
\* ------------------------------------------------------------------------
C24_TakeValueInPlace ==
    JustTaken
        => LET t == taken[1]
               b == t.before
               hits == {i \in 1..b.keys_size : b.keys[i][1] = t.key}
           IN
           /\ context.inner = b.inner
           /\ context.keys_size = b.keys_size
           /\ \A i \in 1..N : context.keys[i][1] = b.keys[i][1]
           /\ hits = {} => (t.value = None /\ context = b)
           /\ hits # {}
                 => \E i \in hits :
                       /\ \A j \in hits : i <= j
                       /\ t.value = Some(b.keys[i][2])
                       /\ context.keys[i][2].t = "None"
                       /\ context.keys[i] = <<t.key, ValueNone>>
                       /\ \A j \in (1..N) \ {i} : context.keys[j] = b.keys[j]
                       /\ value(context, t.key) = Some(ValueNone)

\* the taken annotation has a later duplicate that still holds its value
C24_Witness ==
    /\ JustTaken
    /\ taken[1].value # None
    /\ taken[1].value[1].t = "Static"
    /\ value(context, taken[1].key) = Some(ValueNone)
    /\ \E i, j \in 1..context.keys_size :
          /\ i < j
          /\ context.keys[i] = <<taken[1].key, ValueNone>>
          /\ context.keys[j][1] = taken[1].key
          /\ context.keys[j][2].t = "Static"

====
